---- MODULE Spec2Model ----
(***************************************************************************)
(* A model of saleor/account/utils.py (the address-book helpers of a user) *)
(* and of the discount API exercised by tests/api/test_discount.py.        *)
(*                                                                         *)
(* The database is modelled by its rows: the account_address table is a    *)
(* sequence of rows whose index is the primary key, user.addresses is the  *)
(* set of primary keys the many-to-many relation holds for the user, and   *)
(* the two default pointers are foreign keys (a primary key, or None).     *)
(***************************************************************************)
EXTENDS Integers, Sequences, FiniteSets, TLC

\* ------------------------------------------------------------------ values

\* Python's None, for a foreign key that is not set and for a missing result.
None == 0

\* AddressType.BILLING and AddressType.SHIPPING.
BILLING == "billing"
SHIPPING == "shipping"
AddressType == {BILLING, SHIPPING}

\* An address value: the fields Address.as_data() yields (every field but the
\* primary key).  Four of them are kept: two names and the street, which the
\* demo obfuscator masks, and the city, which it leaves alone.
Addr(fn, ln, st, ci) ==
    [first_name |-> fn, last_name |-> ln, street_address_1 |-> st, city |-> ci]

\* as_data(): the value of a row or of an unsaved address, without its key.
as_data(address) ==
    Addr(address.first_name, address.last_name, address.street_address_1,
         address.city)

\* ------------------------------------------------------------ obfuscation

\* '.' * n
RECURSIVE Dots(_)
Dots(n) == IF n <= 0 THEN "" ELSE "." \o Dots(n - 1)

\* obfuscate_string(value): '' for an empty value, else the first character
\* followed by one dot per remaining character.
obfuscate_string(value) ==
    IF value = "" THEN "" ELSE SubSeq(value, 1, 1) \o Dots(Len(value) - 1)

\* obfuscate_address(address): a copy with the personal fields masked.
obfuscate_address(address) ==
    Addr(obfuscate_string(address.first_name),
         obfuscate_string(address.last_name),
         obfuscate_string(address.street_address_1),
         address.city)

\* ------------------------------------------------------------------ inputs

\* The address values a caller hands to store_user_address.  Ann Lee and Amy
\* Lee obfuscate to the same value; the third has no names.
AddressInputs ==
    { Addr("Ann", "Lee", "Main St", "X"),
      Addr("Amy", "Lee", "Main St", "X"),
      Addr("", "", "Main St", "Y") }

\* Rows of account_address that exist before the user is created and belong
\* to somebody else (another user's book, an order).  The one row is
\* structurally equal to what the user's own Ann Lee address is stored as.
ForeignRows ==
    << Addr("A..", "L..", "M......", "X") >>

\* The names a user record may carry; '' is a name that was never given.
UserFirstNames == {"", "Eve"}
UserLastNames == {"", "Roe"}

\* ------------------------------------------------------------------- state

VARIABLES
    address_table,            \* account_address: pk -> row
    user_addresses,           \* user.addresses: set of pks
    default_billing_address,  \* user.default_billing_address: pk or None
    default_shipping_address, \* user.default_shipping_address: pk or None
    first_name,               \* user.first_name
    last_name,                \* user.last_name
    call,                     \* the call made last: its name and arguments
    result,                   \* what that call returned or raised
    pre,                      \* the user's state before that call
    repeated,                 \* whether that call repeats the one before it
    ncalls,                   \* how many calls were made, up to CallCap
    first_call,               \* the first call, kept until CallCap calls
    unvalidated,              \* kinds of call made with an address outside the book
    records,                  \* Voucher / Sale rows: kind -> how many
    value_type,               \* discount_value_type / type of the fixture row
    scope,                    \* the three relations' rows, per discount
    request,                  \* the discount operation made last
    response,                 \* what the API answered last
    dpre,                     \* the discount state before that operation
    pc,                       \* per request: the step of store_user_address it is at
    args,                     \* per request: the address and type it was given
    inst,                     \* per request: its user instance's two pointers
    got,                      \* per request: the row get_or_create returned
    saw                       \* per request: the pointer its test read, once read

userVars ==
    <<address_table, user_addresses, default_billing_address,
      default_shipping_address, first_name, last_name>>
obsVars == <<call, result, pre, repeated, ncalls, first_call, unvalidated>>
discountVars == <<records, value_type, scope>>
apiVars == <<request, response, dpre>>
procVars == <<pc, args, inst, got, saw>>
vars == <<userVars, obsVars, discountVars, apiVars, procVars>>

\* The calls counted exactly; beyond it the counter stays put.
CallCap == 3

\* A call: its name, the address value or the row it was given, the type.
NoValue == Addr("", "", "", "")
Call(op, value, pk, address_type) ==
    [op |-> op, value |-> value, pk |-> pk, address_type |-> address_type]
NoCall == Call("none", NoValue, None, "none")

\* Two requests that may run store_user_address for the one user at once.
Procs == {1, 2}

\* No request is running: the calls of the helpers are made one at a time.
InitIdle ==
    /\ pc = [p \in Procs |-> "idle"]
    /\ args = [p \in Procs |-> [address |-> NoValue, address_type |-> "none"]]
    /\ inst = [p \in Procs |-> [billing |-> None, shipping |-> None]]
    /\ got = [p \in Procs |-> None]
    /\ saw = [p \in Procs |-> {}]

\* What a call gave back: the exception it raised ('' for none) and the value
\* it returned, as a set: empty for Python's None, else the one value.
Returned(value) == [raised |-> "", returned |-> {value}]
ReturnedNone == [raised |-> "", returned |-> {}]
Raised(exception) == [raised |-> exception, returned |-> {}]

\* The user's state as a call finds it.
Snapshot ==
    [rows |-> Len(address_table),
     addresses |-> user_addresses,
     default_billing_address |-> default_billing_address,
     default_shipping_address |-> default_shipping_address]

\* Bookkeeping every call does: the call, the state before it, whether it
\* repeats the call before it, the counter, and the first call of the run
\* (forgotten once CallCap calls were made).
Observe(c, res) ==
    /\ call' = c
    /\ result' = res
    /\ pre' = Snapshot
    /\ repeated' = (c = call)
    /\ ncalls' = IF ncalls < CallCap THEN ncalls + 1 ELSE ncalls
    /\ first_call' = IF ncalls = 0 THEN c
                     ELSE IF ncalls + 1 < CallCap THEN first_call
                     ELSE NoCall
    /\ UNCHANGED <<discountVars, apiVars, procVars>>

\* The rows of account_address.
Pks == DOMAIN address_table

\* A caller that hands over a row outside the user's book breaks the
\* precondition of the default-setting helpers; `kind` is remembered.
Validate(kind, address) ==
    unvalidated' = IF address \in user_addresses
                   THEN unvalidated
                   ELSE unvalidated \cup {kind}

\* --------------------------------------------------------------- discounts

\* The two discount variants; the tests hold one row of each (the fixtures).
Discounts == {"voucher", "sale"}

\* DiscountValueType.
FIXED == "fixed"
PERCENTAGE == "percentage"
DiscountValueType == {FIXED, PERCENTAGE}

\* The three relations of a discount and the catalogue rows they can hold.
ScopeKinds == {"products", "collections", "categories"}
Entities(kind) == IF kind = "products" THEN {1, 2} ELSE {1}

\* A relation without rows: entity -> number of rows of the through table.
EmptyRelation(kind) == [e \in Entities(kind) |-> 0]
EmptyScope == [k \in ScopeKinds |-> EmptyRelation(k)]

\* The catalogue input of a mutation: a set of ids per relation.
Catalogue(products, collections, categories) ==
    [products |-> products, collections |-> collections,
     categories |-> categories]
NoCatalogue == Catalogue({}, {}, {})
CatalogueInputs == {NoCatalogue, Catalogue({1}, {1}, {1})}

\* The API's operations on discounts.
Mutations ==
    {"voucherCreate", "voucherUpdate", "voucherDelete",
     "voucherCataloguesAdd", "voucherCataloguesRemove",
     "saleCreate", "saleUpdate", "saleDelete",
     "saleCataloguesAdd", "saleCataloguesRemove"}
Queries == {"vouchers", "sales"}

\* The discount a voucher... or sale... operation is about.
DiscountOf(op) ==
    IF op \in {"voucherCreate", "voucherUpdate", "voucherDelete",
               "voucherCataloguesAdd", "voucherCataloguesRemove", "vouchers"}
    THEN "voucher" ELSE "sale"

\* The error assert_read_only_mode looks for, and an answer without error.
READ_ONLY_ERROR == "read only mode"
NoError == ""

Request(op, discount, kind, entity, catalogue, type) ==
    [op |-> op, discount |-> discount, kind |-> kind, entity |-> entity,
     catalogue |-> catalogue, type |-> type]
NoRequest == Request("none", "none", "none", 0, NoCatalogue, "none")

Response(error, data) == [error |-> error, data |-> data]
NoResponse == Response(NoError, {})

DiscountSnapshot ==
    [records |-> records, value_type |-> value_type, scope |-> scope]

\* Bookkeeping of a discount operation.
ObserveDiscount(r, resp) ==
    /\ request' = r
    /\ response' = resp
    /\ dpre' = DiscountSnapshot
    /\ UNCHANGED <<userVars, obsVars, procVars>>

\* The fixtures: one Voucher and one Sale, of the default value type, with
\* nothing in their relations.
InitDiscounts ==
    /\ records = [d \in Discounts |-> 1]
    /\ value_type = [d \in Discounts |-> FIXED]
    /\ scope = [d \in Discounts |-> EmptyScope]
    /\ request = NoRequest
    /\ response = NoResponse
    /\ dpre = [records |-> [d \in Discounts |-> 1],
               value_type |-> [d \in Discounts |-> FIXED],
               scope |-> [d \in Discounts |-> EmptyScope]]

\* A slip: a row is inserted whether or not the relation holds one.
M2MAdd_Insert(relation, objs) ==
    [e \in DOMAIN relation |->
        IF e \in objs THEN relation[e] + 1 ELSE relation[e]]

\* voucher.products.add(product): rows are inserted for the objects the
\* relation does not hold yet.
M2MAdd(relation, objs) ==
    [e \in DOMAIN relation |->
        IF e \in objs /\ relation[e] = 0 THEN 1 ELSE relation[e]]

\* relation.remove(*objs): the rows of the objects are deleted.
M2MRemove(relation, objs) ==
    [e \in DOMAIN relation |-> IF e \in objs THEN 0 ELSE relation[e]]

\* addToScope(discount, products, collections, categories).
add_to_scope(d, catalogue) ==
    [scope EXCEPT ![d] = [k \in ScopeKinds |-> M2MAdd(scope[d][k], catalogue[k])]]

\* removeFromScope(discount, products, collections, categories).
remove_from_scope(d, catalogue) ==
    [scope EXCEPT ![d] =
        [k \in ScopeKinds |-> M2MRemove(scope[d][k], catalogue[k])]]

\* voucher.products.add(product), sale.categories.add(category), ...: the
\* tests' own writes, which do not pass through the API.
ScopeAdd(d, kind, entity) ==
    /\ scope' = [scope EXCEPT ![d][kind] = M2MAdd(scope[d][kind], {entity})]
    /\ UNCHANGED <<records, value_type>>
    /\ ObserveDiscount(
          Request("add", d, kind, entity, NoCatalogue, "none"), NoResponse)

\* The removal of one entity from one relation, made past the API.
ScopeRemove(d, kind, entity) ==
    /\ scope' = [scope EXCEPT ![d][kind] = M2MRemove(scope[d][kind], {entity})]
    /\ UNCHANGED <<records, value_type>>
    /\ ObserveDiscount(
          Request("remove", d, kind, entity, NoCatalogue, "none"), NoResponse)

\* voucher.discount_value_type = ...; voucher.save() (and sale.type).
SaveType(d, type) ==
    /\ value_type' = [value_type EXCEPT ![d] = type]
    /\ UNCHANGED <<records, scope>>
    /\ ObserveDiscount(
          Request("save", d, "none", 0, NoCatalogue, type), NoResponse)

\* A slip: the gate lets the catalogue mutations through.
Rejected_NotCatalogues(op) ==
    op \in Mutations \ {"voucherCataloguesAdd", "voucherCataloguesRemove",
                        "saleCataloguesAdd", "saleCataloguesRemove"}

\* The demo's read-only gate: every mutation is turned away.
Rejected(op) == op \in Mutations

\* What a mutation's resolver does to the discounts once it runs.
Resolve(op, catalogue, type) ==
    LET d == DiscountOf(op)
    IN  IF op \in {"voucherCreate", "saleCreate"}
        THEN /\ records' = [records EXCEPT ![d] = records[d] + 1]
             /\ UNCHANGED <<value_type, scope>>
        ELSE IF op \in {"voucherDelete", "saleDelete"}
        THEN /\ records' = [records EXCEPT ![d] = 0]
             /\ scope' = [scope EXCEPT ![d] = EmptyScope]
             /\ UNCHANGED value_type
        ELSE IF op \in {"voucherUpdate", "saleUpdate"}
        THEN /\ value_type' = [value_type EXCEPT ![d] = type]
             /\ UNCHANGED <<records, scope>>
        ELSE IF op \in {"voucherCataloguesAdd", "saleCataloguesAdd"}
        THEN /\ scope' = add_to_scope(d, catalogue)
             /\ UNCHANGED <<records, value_type>>
        ELSE /\ scope' = remove_from_scope(d, catalogue)
             /\ UNCHANGED <<records, value_type>>

\* staff_api_client.post_graphql(mutation, variables,
\* permissions=[permission_manage_discounts]).
PostMutation(op, catalogue, type) ==
    LET r == Request(op, DiscountOf(op), "none", 0, catalogue, type)
    IN  IF Rejected(op)
        THEN /\ UNCHANGED discountVars
             /\ ObserveDiscount(r, Response(READ_ONLY_ERROR, {}))
        ELSE /\ Resolve(op, catalogue, type)
             /\ ObserveDiscount(r, Response(NoError, {}))

\* staff_api_client.post_graphql(query, ...): the first row's fields.
PostQuery(op) ==
    LET d == DiscountOf(op)
        r == Request(op, d, "none", 0, NoCatalogue, "none")
        data == IF records[d] > 0 THEN {<<d, value_type[d]>>} ELSE {}
    IN  IF Rejected(op)
        THEN /\ UNCHANGED discountVars
             /\ ObserveDiscount(r, Response(READ_ONLY_ERROR, {}))
        ELSE /\ UNCHANGED discountVars
             /\ ObserveDiscount(r, Response(NoError, data))

\* The variables a test sends: a catalogue input with the catalogue
\* mutations, a value type with the updates.
TakesCatalogue(op) ==
    op \in {"voucherCataloguesAdd", "voucherCataloguesRemove",
            "saleCataloguesAdd", "saleCataloguesRemove"}
TakesType(op) == op \in {"voucherUpdate", "saleUpdate"}
VariableTypes == DiscountValueType \cup {"none"}

NextDiscount ==
    \/ \E d \in Discounts, k \in ScopeKinds :
           \E e \in Entities(k) : ScopeAdd(d, k, e)
    \/ \E d \in Discounts, k \in ScopeKinds :
           \E e \in Entities(k) : ScopeRemove(d, k, e)
    \/ \E d \in Discounts, t \in DiscountValueType : SaveType(d, t)
    \/ \E op \in Mutations, c \in CatalogueInputs, t \in VariableTypes :
           /\ TakesCatalogue(op) \/ c = NoCatalogue
           /\ TakesType(op) <=> t \in DiscountValueType
           /\ PostMutation(op, c, t)
    \/ \E op \in Queries : PostQuery(op)

\* ------------------------------------------------------------------- users

Init ==
    /\ InitDiscounts
    /\ InitIdle
    /\ address_table = ForeignRows
    /\ user_addresses = {}
    /\ default_billing_address = None
    /\ default_shipping_address = None
    /\ first_name \in UserFirstNames
    /\ last_name \in UserLastNames
    /\ call = NoCall
    /\ result = ReturnedNone
    /\ pre = [rows |-> Len(ForeignRows), addresses |-> {},
              default_billing_address |-> None,
              default_shipping_address |-> None]
    /\ repeated = FALSE
    /\ ncalls = 0
    /\ first_call = NoCall
    /\ unvalidated = {}

\* -------------------------------------------------------------- operations

\* user.addresses.filter(**data): the book's rows with exactly these values.
Matching(data) == {pk \in user_addresses : address_table[pk] = data}

\* A slip: the billing setter writes the shipping pointer.
set_user_default_billing_address_Shipping(address) ==
    /\ default_shipping_address' = address
    /\ UNCHANGED default_billing_address

\* set_user_default_billing_address: the pointer and nothing else.
set_user_default_billing_address(address) ==
    /\ default_billing_address' = address
    /\ UNCHANGED default_shipping_address

\* set_user_default_shipping_address: the pointer and nothing else.
set_user_default_shipping_address(address) ==
    /\ default_shipping_address' = address
    /\ UNCHANGED default_billing_address

\* A slip: the branches set the pointer of the other type.
StoreDefault_Swapped(address, address_type) ==
    IF address_type = BILLING
    THEN IF default_shipping_address = None
         THEN set_user_default_shipping_address(address)
         ELSE UNCHANGED <<default_billing_address, default_shipping_address>>
    ELSE IF default_billing_address = None
         THEN set_user_default_billing_address(address)
         ELSE UNCHANGED <<default_billing_address, default_shipping_address>>

\* A slip: the pointer is set whether or not a default exists.
StoreDefault_Overwrite(address, address_type) ==
    IF address_type = BILLING
    THEN set_user_default_billing_address(address)
    ELSE set_user_default_shipping_address(address)

\* The branches of store_user_address after get_or_create gave `address`.
StoreDefault(address, address_type) ==
    IF address_type = BILLING
    THEN IF default_billing_address = None
         THEN set_user_default_billing_address(address)
         ELSE UNCHANGED <<default_billing_address, default_shipping_address>>
    ELSE IF address_type = SHIPPING
    THEN IF default_shipping_address = None
         THEN set_user_default_shipping_address(address)
         ELSE UNCHANGED <<default_billing_address, default_shipping_address>>
    ELSE UNCHANGED <<default_billing_address, default_shipping_address>>

\* A slip: create() in place of get_or_create().
GetOrCreate_AlwaysCreate(data, address_type) ==
    LET pk == Len(address_table) + 1
    IN  /\ address_table' = Append(address_table, data)
        /\ user_addresses' = user_addresses \cup {pk}
        /\ StoreDefault(pk, address_type)

\* A slip: Address.objects in place of user.addresses, so that the row is
\* looked up in the whole table and a new one does not join the book.
GetOrCreate_NotInBook(data, address_type) ==
    LET found == {pk \in DOMAIN address_table : address_table[pk] = data}
    IN  IF found = {}
        THEN LET pk == Len(address_table) + 1
             IN  /\ address_table' = Append(address_table, data)
                 /\ UNCHANGED user_addresses
                 /\ StoreDefault(pk, address_type)
        ELSE LET pk == CHOOSE p \in found : TRUE
             IN  /\ UNCHANGED <<address_table, user_addresses>>
                 /\ StoreDefault(pk, address_type)

\* user.addresses.get_or_create(**data): one match in the book is reused,
\* none makes a new row that joins the book.
GetOrCreate(data, address_type) ==
    LET found == Matching(data)
    IN  IF found = {}
        THEN LET pk == Len(address_table) + 1
             IN  /\ address_table' = Append(address_table, data)
                 /\ user_addresses' = user_addresses \cup {pk}
                 /\ StoreDefault(pk, address_type)
        ELSE LET pk == CHOOSE p \in found : TRUE
             IN  /\ UNCHANGED <<address_table, user_addresses>>
                 /\ StoreDefault(pk, address_type)

\* store_user_address(user, address, address_type).  The value looked up is
\* the obfuscated one.  Several matches in the book make get_or_create raise
\* MultipleObjectsReturned before anything is written.
store_user_address(address, address_type) ==
    LET data == as_data(obfuscate_address(address))
        c == Call("store", address, None, address_type)
    IN  /\ UNCHANGED <<first_name, last_name, unvalidated>>
        /\ IF Cardinality(Matching(data)) > 1
           THEN /\ UNCHANGED <<address_table, user_addresses,
                               default_billing_address,
                               default_shipping_address>>
                /\ Observe(c, Raised("MultipleObjectsReturned"))
           ELSE /\ GetOrCreate(data, address_type)
                /\ Observe(c, ReturnedNone)

\* A caller of set_user_default_billing_address / _shipping_address with a
\* row of the table; the helper itself checks nothing.
SetDefault(address, address_type) ==
    /\ IF address_type = BILLING
       THEN set_user_default_billing_address(address)
       ELSE set_user_default_shipping_address(address)
    /\ UNCHANGED <<address_table, user_addresses, first_name, last_name>>
    /\ Validate("set_default", address)
    /\ Observe(Call("set_default", NoValue, address, address_type),
               ReturnedNone)

\* A slip: the old default is dropped.
Demote_Discard(old) == UNCHANGED user_addresses

\* user.addresses.add(old): the old default joins the book (a row already
\* there is not added twice).
Demote(old) ==
    user_addresses' = IF old # None
                      THEN user_addresses \cup {old}
                      ELSE user_addresses

\* change_user_default_address(user, address, address_type).
change_user_default_address(address, address_type) ==
    /\ IF address_type = BILLING
       THEN /\ Demote(default_billing_address)
            /\ set_user_default_billing_address(address)
       ELSE IF address_type = SHIPPING
       THEN /\ Demote(default_shipping_address)
            /\ set_user_default_shipping_address(address)
       ELSE UNCHANGED <<user_addresses, default_billing_address,
                        default_shipping_address>>
    /\ UNCHANGED <<address_table, first_name, last_name>>
    /\ Validate("change", address)
    /\ Observe(Call("change", NoValue, address, address_type), ReturnedNone)

\* get_user_first_name(user): the user's own, else the default billing
\* address's, else None.
get_user_first_name ==
    IF first_name # ""
    THEN Returned(first_name)
    ELSE IF default_billing_address # None
    THEN Returned(address_table[default_billing_address].first_name)
    ELSE ReturnedNone

\* A slip (the docstring's): the first name of the address for the last.
get_user_last_name_FirstName ==
    IF last_name # ""
    THEN Returned(last_name)
    ELSE IF default_billing_address # None
    THEN Returned(address_table[default_billing_address].first_name)
    ELSE ReturnedNone

\* get_user_last_name(user): the same for the last name.
get_user_last_name ==
    IF last_name # ""
    THEN Returned(last_name)
    ELSE IF default_billing_address # None
    THEN Returned(address_table[default_billing_address].last_name)
    ELSE ReturnedNone

GetFirstName ==
    /\ UNCHANGED <<userVars, unvalidated>>
    /\ Observe(Call("get_user_first_name", NoValue, None, "none"),
               get_user_first_name)

GetLastName ==
    /\ UNCHANGED <<userVars, unvalidated>>
    /\ Observe(Call("get_user_last_name", NoValue, None, "none"),
               get_user_last_name)

Next ==
    \/ \E a \in AddressInputs, t \in AddressType : store_user_address(a, t)
    \/ \E pk \in Pks, t \in AddressType : SetDefault(pk, t)
    \/ \E pk \in Pks, t \in AddressType : change_user_default_address(pk, t)
    \/ GetFirstName
    \/ GetLastName

Spec == Init /\ [][Next]_vars

\* The same calls made by callers that hand the default-setting helpers only
\* addresses of the user's own book, as the helpers' contract asks.
NextValidated ==
    \/ \E a \in AddressInputs, t \in AddressType : store_user_address(a, t)
    \/ \E pk \in user_addresses, t \in AddressType : SetDefault(pk, t)
    \/ \E pk \in user_addresses, t \in AddressType :
           change_user_default_address(pk, t)
    \/ GetFirstName
    \/ GetLastName

SpecValidated == Init /\ [][NextValidated]_vars

\* The discount operations, beside one user who is left alone.
InitDiscountSpec == Init /\ first_name = "" /\ last_name = ""
SpecDiscount == InitDiscountSpec /\ [][NextDiscount]_vars

\* ------------------------------------------------- two requests at once

\* The address an earlier store_user_address call may have left in the book.
PriorData == as_data(obfuscate_address(Addr("", "", "Main St", "Y")))

\* The user as two requests find it: a new user, or one for whom one
\* store_user_address call of either type has completed.  Each request holds
\* its own instance of the user, loaded before its call.
InitConcurrent ==
    /\ InitDiscounts
    /\ first_name = ""
    /\ last_name = ""
    /\ call = NoCall
    /\ result = ReturnedNone
    /\ pre = [rows |-> Len(ForeignRows), addresses |-> {},
              default_billing_address |-> None,
              default_shipping_address |-> None]
    /\ repeated = FALSE
    /\ ncalls = 0
    /\ first_call = NoCall
    /\ unvalidated = {}
    /\ \E prior \in AddressType \cup {"none"} :
          LET pk == Len(ForeignRows) + 1
          IN  /\ address_table = IF prior = "none" THEN ForeignRows
                                 ELSE Append(ForeignRows, PriorData)
              /\ user_addresses = IF prior = "none" THEN {} ELSE {pk}
              /\ default_billing_address =
                    IF prior = BILLING THEN pk ELSE None
              /\ default_shipping_address =
                    IF prior = SHIPPING THEN pk ELSE None
    /\ pc = [p \in Procs |-> "get_or_create"]
    /\ args \in [Procs -> [address : AddressInputs,
                            address_type : AddressType]]
    /\ inst = [p \in Procs |-> [billing |-> default_billing_address,
                                 shipping |-> default_shipping_address]]
    /\ got = [p \in Procs |-> None]
    /\ saw = [p \in Procs |-> {}]

\* A slip: Address.objects in place of user.addresses, so that the row is
\* looked up in the whole table and a new one does not join the book.
StepGetOrCreate_NotInBook(p) ==
    LET data == as_data(obfuscate_address(args[p].address))
        found == {pk \in DOMAIN address_table : address_table[pk] = data}
    IN  /\ pc[p] = "get_or_create"
        /\ IF found = {}
           THEN /\ address_table' = Append(address_table, data)
                /\ got' = [got EXCEPT ![p] = Len(address_table) + 1]
           ELSE /\ UNCHANGED address_table
                /\ got' = [got EXCEPT ![p] = CHOOSE q \in found : TRUE]
        /\ pc' = [pc EXCEPT ![p] = "read"]
        /\ UNCHANGED <<user_addresses, default_billing_address,
                       default_shipping_address, first_name, last_name,
                       obsVars, discountVars, apiVars, args, inst, saw>>

\* The first step of store_user_address in request p: the address is
\* obfuscated and get_or_create looks it up in the book as the database
\* holds it now, reusing the one match, adding a new row when there is none,
\* raising when there are several.
StepGetOrCreate(p) ==
    LET data == as_data(obfuscate_address(args[p].address))
        found == Matching(data)
    IN  /\ pc[p] = "get_or_create"
        /\ IF Cardinality(found) > 1
           THEN /\ pc' = [pc EXCEPT ![p] = "raised"]
                /\ UNCHANGED <<address_table, user_addresses, got>>
           ELSE IF found = {}
           THEN /\ address_table' = Append(address_table, data)
                /\ user_addresses' =
                      user_addresses \cup {Len(address_table) + 1}
                /\ got' = [got EXCEPT ![p] = Len(address_table) + 1]
                /\ pc' = [pc EXCEPT ![p] = "read"]
           ELSE /\ UNCHANGED <<address_table, user_addresses>>
                /\ got' = [got EXCEPT ![p] = CHOOSE q \in found : TRUE]
                /\ pc' = [pc EXCEPT ![p] = "read"]
        /\ UNCHANGED <<default_billing_address, default_shipping_address,
                       first_name, last_name, obsVars, discountVars, apiVars,
                       args, inst, saw>>

\* The second step: `if not user.default_billing_address` (or _shipping_)
\* reads the pointer of the request's own instance of the user.
StepRead(p) ==
    LET seen == IF args[p].address_type = BILLING
                THEN inst[p].billing ELSE inst[p].shipping
    IN  /\ pc[p] = "read"
        /\ saw' = [saw EXCEPT ![p] = {seen}]
        /\ pc' = [pc EXCEPT ![p] = IF seen = None THEN "write" ELSE "done"]
        /\ UNCHANGED <<userVars, obsVars, discountVars, apiVars, args, inst,
                       got>>

\* The third step: the setter assigns the pointer on the instance and
\* save(update_fields=[...]) writes that one field to the database.
StepWrite(p) ==
    /\ pc[p] = "write"
    /\ IF args[p].address_type = BILLING
       THEN /\ set_user_default_billing_address(got[p])
            /\ inst' = [inst EXCEPT ![p].billing = got[p]]
       ELSE /\ set_user_default_shipping_address(got[p])
            /\ inst' = [inst EXCEPT ![p].shipping = got[p]]
    /\ pc' = [pc EXCEPT ![p] = "done"]
    /\ UNCHANGED <<address_table, user_addresses, first_name, last_name,
                   obsVars, discountVars, apiVars, args, got, saw>>

NextConcurrent ==
    \/ \E p \in Procs : StepGetOrCreate(p)
    \/ \E p \in Procs : StepRead(p)
    \/ \E p \in Procs : StepWrite(p)

SpecConcurrent == InitConcurrent /\ [][NextConcurrent]_vars

\* ------------------------------------------------- vocabulary of the claims

\* The default pointer of a type, now and before the last call.
Default(t) ==
    IF t = BILLING THEN default_billing_address ELSE default_shipping_address
PreDefault(t) ==
    IF t = BILLING THEN pre.default_billing_address
    ELSE pre.default_shipping_address
Other(t) == IF t = BILLING THEN SHIPPING ELSE BILLING

\* The last call left the book and both pointers as it found them.
UserUnchanged ==
    /\ Len(address_table) = pre.rows
    /\ user_addresses = pre.addresses
    /\ default_billing_address = pre.default_billing_address
    /\ default_shipping_address = pre.default_shipping_address

\* No two rows of a set of rows hold the same values.
NoDuplicates(book) ==
    \A p, q \in book : address_table[p] = address_table[q] => p = q

\* Every pointer that is set references a row of the user's book.
DefaultsInBook ==
    \A t \in AddressType : Default(t) # None => Default(t) \in user_addresses

\* ------------------------------------------------------------------ claims

\* C1 as stated: while the two setters were only ever given addresses of the
\* book (change_user_default_address being given any address), every default
\* pointer that is set references an address of the user's book.
C1_Original == ("set_default" \notin unvalidated) => DefaultsInBook

\* C1, amended: while the setters and change_user_default_address were only
\* ever given addresses of the user's book, every default pointer that is set
\* references an address of the user's book.
C1_DefaultsInBook == (unvalidated = {}) => DefaultsInBook

\* Both pointers set, to different rows of the book, by validated calls, the
\* last of them a change of default.
C1_Witness ==
    /\ unvalidated = {}
    /\ call.op = "change"
    /\ default_billing_address # None
    /\ default_shipping_address # None
    /\ default_billing_address # default_shipping_address
    /\ PreDefault(call.address_type) # None

\* A store_user_address call that found no default of its type.
StoredWithoutDefault ==
    call.op = "store" /\ PreDefault(call.address_type) = None

C3_Idempotent ==
    /\ (call.op = "store" /\ repeated) => UserUnchanged
    /\ (call.op = "store" /\ NoDuplicates(pre.addresses))
           => NoDuplicates(user_addresses)

\* The same store made twice in a row, on a book of two entries.
C3_Witness ==
    /\ call.op = "store"
    /\ repeated
    /\ Cardinality(user_addresses) >= 2
    /\ NoDuplicates(user_addresses)

C5_OldDefaultDemoted ==
    call.op = "change" =>
        /\ Default(call.address_type) = call.pk
        /\ Default(Other(call.address_type))
               = PreDefault(Other(call.address_type))
        /\ (PreDefault(call.address_type) # None
             /\ PreDefault(call.address_type) # call.pk) =>
               /\ PreDefault(call.address_type) \in user_addresses
               /\ PreDefault(call.address_type) # Default(call.address_type)
        /\ PreDefault(call.address_type) = None =>
               /\ user_addresses = pre.addresses
               /\ Len(address_table) = pre.rows

\* A change of default whose old default was not in the book before the call
\* and is in it after.
C5_Witness ==
    /\ call.op = "change"
    /\ PreDefault(call.address_type) # None
    /\ PreDefault(call.address_type) # call.pk
    /\ PreDefault(call.address_type) \notin pre.addresses
    /\ PreDefault(call.address_type) \in user_addresses

\* The two calls of the scenario, made first and second on a new user.
ScenarioC6 ==
    /\ ncalls = 2
    /\ first_call.op = "store"
    /\ first_call.address_type = SHIPPING
    /\ call.op = "store"
    /\ call.address_type = BILLING
    /\ call.value = first_call.value

\* C6: on a user with an empty book and no defaults, storing A as shipping
\* and then the same A as billing ends with one address in the book, which
\* both pointers reference.
C6_OneEntryBothDefaults ==
    ScenarioC6 =>
        /\ Cardinality(user_addresses) = 1
        /\ default_shipping_address \in user_addresses
        /\ default_billing_address = default_shipping_address

\* The scenario, run with an address the obfuscation changes.
C6_Witness ==
    /\ ScenarioC6
    /\ call.value.first_name = "Ann"
    /\ pre.default_billing_address = None
    /\ pre.default_shipping_address # None

\* C7: a setter makes the address the default of its type and leaves the
\* other pointer, the book and the address table as they were; given the
\* address that is the default already, it changes nothing.
C7_SetterFrame ==
    call.op = "set_default" =>
        /\ Default(call.address_type) = call.pk
        /\ Default(Other(call.address_type))
               = PreDefault(Other(call.address_type))
        /\ user_addresses = pre.addresses
        /\ Len(address_table) = pre.rows
        /\ PreDefault(call.address_type) = call.pk => UserUnchanged

\* A setter that replaced one default while the other pointer was set.
C7_Witness ==
    /\ call.op = "set_default"
    /\ PreDefault(call.address_type) # None
    /\ PreDefault(call.address_type) # call.pk
    /\ Default(Other(call.address_type)) # None
    /\ Default(Other(call.address_type)) # call.pk

C9_MutationsRejected ==
    /\ request.op \in Mutations =>
          /\ response.error = READ_ONLY_ERROR
          /\ DiscountSnapshot = dpre
    /\ request.op \in Queries =>
          /\ response.error = NoError
          /\ response.data =
                {<<request.discount, value_type[request.discount]>>}
          /\ DiscountSnapshot = dpre

\* A voucherCataloguesRemove naming a product, a collection and a category
\* that the voucher holds, turned away.
C9_Witness ==
    /\ request.op = "voucherCataloguesRemove"
    /\ request.catalogue = Catalogue({1}, {1}, {1})
    /\ \A k \in ScopeKinds : scope["voucher"][k][1] = 1
    /\ value_type["voucher"] = PERCENTAGE
    /\ response.error = READ_ONLY_ERROR

\* C10: no relation of a discount holds an entity more than once, and an
\* entity just added, whether or not the relation held it, is held once.
C10_SetSemantics ==
    /\ \A d \in Discounts, k \in ScopeKinds :
          \A e \in Entities(k) : scope[d][k][e] <= 1
    /\ request.op = "add" =>
          scope[request.discount][request.kind][request.entity] = 1

\* A product added to a relation that held it already, beside another
\* product that the relation does not hold.
C10_Witness ==
    /\ request.op = "add"
    /\ request.kind = "products"
    /\ dpre.scope[request.discount]["products"][request.entity] = 1
    /\ scope[request.discount]["products"][request.entity] = 1
    /\ \E e \in Entities("products") :
          scope[request.discount]["products"][e] = 0

\* Both requests ran to their end, for the same type, each having read that
\* the user has no default of that type.
BothStoredWithoutDefault ==
    /\ \A p \in Procs : pc[p] = "done" /\ saw[p] = {None}
    /\ args[1].address_type = args[2].address_type

====
